---- MODULE Spec2Model ----
(***************************************************************************)
(* A model of the Airtable data adapter (src/airtable_adapter.py): the     *)
(* paginated fetcher, the linked-record resolver with its caches, and the  *)
(* batch uploader.  Execution is sequential: one adapter, one caller.      *)
(*                                                                         *)
(* An optional Python value (None or a value) is a sequence of length 0 or *)
(* 1: <<>> is None / an absent JSON key, <<v>> is the value v.             *)
(***************************************************************************)
EXTENDS Integers, Sequences, FiniteSets, TLC

(* ------------------------------ bounds --------------------------------- *)
MaxPages == 3
MaxPageLen == 2
\* The longest sequence of resolver calls explored.
MaxCalls == 3
\* The most records a caller uploads, the most records the destination
\* table holds beforehand, and the records per page of its listing.
MaxRecords == 23
MaxDest == 2
ListPageLen == 1

(* ------------------------- the remote's values ------------------------- *)
\* HTTP statuses the remote answers with.
StatusCodes == {200, 404, 503}
\* Continuation tokens the remote may hand out: opaque strings.
Tokens == {"", "c1", "c2", "c3"}
\* View filters a caller may pass to _fetch_all_records (None or an id).
ViewIds == {<<>>, <<"viw1">>}

None == <<>>
Some(v) == <<v>>

\* Python truthiness of an optional string: None and "" are falsy.
Truthy(opt) == opt # None /\ opt[1] # ""

VARIABLES
    table,        \* the remote table: a sequence of pages [records, offset]
    view_id,      \* _fetch_all_records' view_id argument
    fpc,          \* _fetch_all_records: "idle", "loop", "break", "returned", "raised"
    all_records,  \* its local all_records
    offset,       \* its local offset (None or a token)
    fetchLog,     \* the page requests issued, with the answer to each
    fetchResult,  \* what the call returned: None until it returns
    caches,       \* the caches: self._record_cache and the callers' dicts
    calls,        \* the resolver calls made so far, with what each did
    rpc,          \* the caller of the resolver: "running" or "aborted"
    table_name,   \* upload_results: its table_name argument
    log_args,     \* the log_entry call that made the upload call, if any
    data,         \* upload_results: the caller's DataFrame [dtypes, rows]
    insert_geo,   \* its insert_geo argument
    delete_all,   \* its delete_all argument
    upc,          \* its control: "nocall", "idle", "delete_list", "delete_next",
                  \* "delete", "post", "returned", "raised"
    records,      \* its local records (gdf.to_dict('records'))
    ci,           \* the index of the next chunk to post
    all_record_ids, \* _delete_all_records: the ids collected
    list_offset,  \* the "offset" of its last response_json
    di,           \* the index of the next id to delete
    dest,         \* the destination table on the remote: its record ids
    wire,         \* the requests and sleeps of the upload, in order
    stdout,       \* what the upload printed
    urlOf,        \* config: the DELETE_TABLE_WEBHOOK entry of each table
    remote,       \* the number of records each remote table holds
    pending,      \* tables whose deletion hook has been triggered
    requested,    \* clear_tables: the table_names of the outermost call
    stack,        \* its invocations, outermost first: one frame each
    clog,         \* the calls, requests and sleeps of clear_tables, in order
    cpc,          \* "nocall", "idle", "running", "returned"
    tdirs,        \* template backends: the two local directories
    tcalls,       \* the template operations called, with their outcome
    tstdout,      \* what the template backends printed
    trequests,    \* the network requests the template backends sent
    tpc,          \* "nocall" or "idle"
    operation     \* the operation of the adapter this behaviour runs

fetchVars == <<table, view_id, fpc, all_records, offset, fetchLog, fetchResult>>
resolveVars == <<caches, calls, rpc>>
uploadVars == <<table_name, log_args, data, insert_geo, delete_all, upc,
                records, ci, all_record_ids, list_offset, di, dest, wire,
                stdout>>

clearVars == <<urlOf, remote, pending, requested, stack, clog, cpc>>
templateVars == <<tdirs, tcalls, tstdout, trequests, tpc>>

vars == <<table, view_id, fpc, all_records, offset, fetchLog, fetchResult,
          caches, calls, rpc,
          table_name, log_args, data, insert_geo, delete_all, upc, records, ci,
          all_record_ids, list_offset, di, dest, wire, stdout,
          urlOf, remote, pending, requested, stack, clog, cpc,
          tdirs, tcalls, tstdout, trequests, tpc, operation>>

(* ------------------------------ helpers -------------------------------- *)
\* The headers of a request: a dict from header name to its value, a
\* sequence of words.  The Authorization value names the config key whose
\* token it carries.
BearerHeaders(token_key) ==
    [h \in {"Authorization", "Content-Type"} |->
        IF h = "Authorization" THEN <<"Bearer", token_key>>
        ELSE <<"application/json">>]

\* _get_headers() (lines 33-39) with its default token_key.
GetHeaders == BearerHeaders("PERSONAL_ACCESS_TOKEN")

\* Upload headers without the Authorization entry.
UploadHeaders_NoAuth == [h \in {"Content-Type"} |-> <<"application/json">>]

\* The headers of upload_results (lines 293-296), used by its batch
\* writes and by the requests of _delete_all_records.
UploadHeaders == BearerHeaders("PAT_BIOCREDITS-CALC")

\* The headers of a verification GET of clear_tables (lines 364-367).
VerifyHeaders == BearerHeaders("PAT_BIOCREDITS-CALC")

\* The headers of the trigger POST (line 383).
WebhookHeaders == [h \in {"Content-Type"} |-> <<"application/json">>]

\* Not a request.
NoHeaders == <<>>

RECURSIVE SumTo(_, _)
SumTo(sizes, i) == IF i = 0 THEN 0 ELSE sizes[i] + SumTo(sizes, i - 1)

\* The records of a page of the given size whose predecessors hold `before`
\* records: record ids are numbered along the table, so each is unique.
PageRecords(before, size) == [k \in 1..size |-> before + k]

\* The remote tables: n >= 1 pages, every page but the last carrying a
\* continuation token of its own, the last carrying none.
MakeTable(n, sizes, toks) ==
    [i \in 1..n |->
        [records |-> PageRecords(SumTo(sizes, i - 1), sizes[i]),
         offset  |-> IF i < n THEN Some(toks[i]) ELSE None]]

Injective(f) == \A a, b \in DOMAIN f : a # b => f[a] # f[b]

RECURSIVE ConcatPages(_, _)
ConcatPages(t, i) ==
    IF i = 0 THEN <<>> ELSE ConcatPages(t, i - 1) \o t[i].records

\* Every record of the table, in page order and then in within-page order.
TableRecords == ConcatPages(table, Len(table))

(* ------------------------------ remote --------------------------------- *)
\* The page a request addresses: the first without a cursor, otherwise the
\* page after the one that handed out the cursor.
PageFor(params) ==
    IF params.offset = None THEN 1
    ELSE 1 + CHOOSE i \in 1..Len(table) : table[i].offset = params.offset

\* The JSON body of the answer to GET {base}/{table}: the page on success,
\* an error object (no "records", no "offset") otherwise.
ListBody(params, status) ==
    IF status = 200
    THEN [records |-> Some(table[PageFor(params)].records),
          offset  |-> table[PageFor(params)].offset]
    ELSE [records |-> None, offset |-> None]

(* ------------------------ _fetch_all_records --------------------------- *)
\* A raise_for_status that lets server errors through.
RaiseForStatus_ClientErrorsOnly(status) == status >= 400 /\ status < 500

\* requests' Response.raise_for_status: raises HTTPError on 4xx and 5xx.
RaiseForStatus(status) == status >= 400 /\ status < 600

\* response_json.get('records', [])
GetRecords(body) == IF body.records = None THEN <<>> ELSE body.records[1]

\* The query parameters of one page request (lines 63-67).
FetchParams ==
    [view   |-> IF Truthy(view_id) THEN view_id ELSE None,
     offset |-> IF Truthy(offset) THEN offset ELSE None]

\* `if not offset: break` (lines 77-78).
FetchStops(next_offset) == ~Truthy(next_offset)

\* Lines 56-60: the call starts with no records and no cursor.
FetchStart ==
    /\ fpc = "idle"
    /\ fpc' = "loop"
    /\ all_records' = <<>>
    /\ offset' = None
    /\ UNCHANGED <<table, view_id, fetchLog, fetchResult>>
    /\ UNCHANGED resolveVars
    /\ UNCHANGED uploadVars
    /\ UNCHANGED <<clearVars, templateVars, operation>>

\* Lines 62-78: one iteration of the loop, one page request.
FetchPage ==
    /\ fpc = "loop"
    /\ \E status \in StatusCodes :
         LET params == FetchParams
             body   == ListBody(params, status)
         IN
         /\ fetchLog' = Append(fetchLog,
                [params |-> params, headers |-> GetHeaders,
                 status |-> status, offset |-> body.offset])
         /\ IF RaiseForStatus(status)
            THEN /\ fpc' = "raised"
                 /\ UNCHANGED <<all_records, offset>>
            ELSE /\ all_records' = all_records \o GetRecords(body)
                 /\ offset' = body.offset
                 /\ fpc' = IF FetchStops(body.offset) THEN "break" ELSE "loop"
    /\ UNCHANGED <<table, view_id, fetchResult>>
    /\ UNCHANGED resolveVars
    /\ UNCHANGED uploadVars
    /\ UNCHANGED <<clearVars, templateVars, operation>>

\* Line 80: return all_records.
FetchReturn ==
    /\ fpc = "break"
    /\ fpc' = "returned"
    /\ fetchResult' = Some(all_records)
    /\ UNCHANGED <<table, view_id, all_records, offset, fetchLog>>
    /\ UNCHANGED resolveVars
    /\ UNCHANGED uploadVars
    /\ UNCHANGED <<clearVars, templateVars, operation>>

(* ----------------------- linked-record resolver ------------------------ *)
\* The ids a caller resolves and the fields it asks for.
LinkIds == {1, 2}
FieldNames == {"CODE", "project_id"}
\* Statuses of the single-record GET.
RecordStatusCodes == {200, 404}
\* The adapter's own cache (line 31) and a dict owned by a caller
\* (pod_cache, line 106; cache, line 218).
DefaultCache == "_record_cache"
CallerCaches == {"pod_cache"}
CacheNames == {DefaultCache} \cup CallerCaches

\* The "fields" object of a remote record.  Every record has a CODE; the
\* odd ones have no project_id.  Values differ by record and by field.
RecordFields(id) ==
    IF id % 2 = 0
    THEN [f \in {"CODE", "project_id"} |-> <<f, id>>]
    ELSE [f \in {"CODE"} |-> <<f, id>>]

\* dict.get(field_name): None when the key is absent.
GetField(fields, field_name) ==
    IF field_name \in DOMAIN fields THEN Some(fields[field_name]) ELSE None

\* A hit test on the cached value (`if cache.get(record_id):`) instead of
\* on the key.
InCache_Truthy(cache, record_id) ==
    record_id \in DOMAIN cache /\ cache[record_id] # None

\* `record_id in cache`
InCache(cache, record_id) == record_id \in DOMAIN cache

\* A store that rebinds the cache to a dict holding the new entry alone.
CacheStore_Reset(cache, record_id, value) == [k \in {record_id} |-> value]

\* `cache[record_id] = value`
CacheStore(cache, record_id, value) ==
    [k \in DOMAIN cache \cup {record_id} |->
        IF k = record_id THEN value ELSE cache[k]]

\* A resolver that ignores the cache it is given.
CacheUsed_AlwaysDefault(cacheArg) == DefaultCache

\* `if cache is None: cache = self._record_cache` (lines 417-418)
CacheUsed(cacheArg) == IF cacheArg = None THEN DefaultCache ELSE cacheArg[1]

\* A resolver that raises on a failed fetch, as the page fetcher does.
OnRecordResponse_Raises(cache, record_id, field_name, status) ==
    IF status = 200
    THEN LET value == GetField(RecordFields(record_id), field_name)
         IN [cache  |-> CacheStore(cache, record_id, value),
             kind   |-> "return",
             ret    |-> value]
    ELSE [cache |-> cache, kind |-> "raise", ret |-> None]

\* A resolver that stores a fetched value only when there is one.
OnRecordResponse_SkipsNone(cache, record_id, field_name, status) ==
    IF status = 200
    THEN LET value == GetField(RecordFields(record_id), field_name)
         IN [cache  |-> IF value = None THEN cache
                        ELSE CacheStore(cache, record_id, value),
             kind   |-> "return",
             ret    |-> value]
    ELSE [cache |-> cache, kind |-> "return", ret |-> None]

\* What a resolver call does on a cache miss once the single-record GET has
\* answered with `status` (lines 432-439 and 259-266): the new cache and
\* the outcome.
OnRecordResponse(cache, record_id, field_name, status) ==
    IF status = 200
    THEN LET value == GetField(RecordFields(record_id), field_name)
         IN [cache  |-> CacheStore(cache, record_id, value),
             kind   |-> "return",
             ret    |-> value]
    ELSE [cache |-> cache, kind |-> "return", ret |-> None]

\* A resolver that never reads the cache: every call fetches.
ResolveIn_AlwaysFetch(cache, record_id, field_name, status) ==
    LET r == OnRecordResponse(cache, record_id, field_name, status)
    IN [cache |-> r.cache, requested |-> TRUE, status |-> Some(status),
        kind |-> r.kind, ret |-> r.ret]

\* fetch_linked_record_name (lines 403-439) and _fetch_linked_record_direct
\* (lines 251-266) from the cache test on: a hit returns the entry without
\* a request, a miss issues one GET {endpoint}/{record_id}.
ResolveIn(cache, record_id, field_name, status) ==
    IF InCache(cache, record_id)
    THEN [cache |-> cache, requested |-> FALSE, status |-> None,
          kind |-> "return", ret |-> cache[record_id]]
    ELSE LET r == OnRecordResponse(cache, record_id, field_name, status)
         IN [cache |-> r.cache, requested |-> TRUE, status |-> Some(status),
             kind |-> r.kind, ret |-> r.ret]

\* One resolver call by `fn` on the cache named `c`, recorded in `calls`.
ResolverCall(fn, cacheArg, c, record_id, field_name, status) ==
    LET r == ResolveIn(caches[c], record_id, field_name, status)
    IN
    /\ rpc = "running"
    /\ Len(calls) < MaxCalls
    /\ caches' = [caches EXCEPT ![c] = r.cache]
    /\ calls' = Append(calls,
            [fn |-> fn, arg |-> cacheArg, cache |-> c, record_id |-> record_id,
             field_name |-> field_name, requested |-> r.requested,
             headers |-> GetHeaders,
             status |-> r.status, kind |-> r.kind, ret |-> r.ret])
    /\ rpc' = IF r.kind = "raise" THEN "aborted" ELSE "running"

\* AirtableAdapter.fetch_linked_record_name(record_id, field_name, cache).
FetchLinkedRecordName(record_id, field_name, cacheArg) ==
    /\ \E status \in RecordStatusCodes :
         ResolverCall("fetch_linked_record_name", cacheArg,
                      CacheUsed(cacheArg), record_id, field_name, status)
    /\ UNCHANGED fetchVars
    /\ UNCHANGED uploadVars
    /\ UNCHANGED <<clearVars, templateVars, operation>>

\* AirtableAdapter._fetch_linked_record_direct(record_id, headers, cache,
\* endpoint, field_name): the cache is always the caller's.
FetchLinkedRecordDirect(record_id, field_name, c) ==
    /\ \E status \in RecordStatusCodes :
         ResolverCall("_fetch_linked_record_direct", Some(c), c,
                      record_id, field_name, status)
    /\ UNCHANGED fetchVars
    /\ UNCHANGED uploadVars
    /\ UNCHANGED <<clearVars, templateVars, operation>>

\* __init__ (line 31) and the callers' fresh dicts: every cache is empty.
InitResolver ==
    /\ caches = [c \in CacheNames |-> <<>>]
    /\ calls = <<>>
    /\ rpc = "running"

(* --------------------------- upload_results ---------------------------- *)
\* batch_size (line 302).
BatchSize == 10
\* Statuses of a batch write and of the requests of the delete phase.
WriteStatusCodes == {200, 422}

Min(a, b) == IF a < b THEN a ELSE b

\* A cell of a DataFrame is <<kind, n>>: a number ("num"), a float NaN
\* ("nan"), a Timestamp ("ts"), NaT ("nat"), a str ("str"), None ("none"),
\* a geometry ("geom"); and the strings the upload makes of them: its WKT
\* ("wkt"), str() of a number or a Timestamp ("str_num", "str_ts"), the
\* texts "nan", "NaT" and "None" ("str_nan", "str_nat", "str_none"), and
\* the empty string ("empty").
BaseColumns == {"plot_id", "score", "eco_date", "name_latin"}

DtypeOf(col) ==
    CASE col = "plot_id"    -> "int64"
      [] col = "score"      -> "float64"
      [] col = "eco_date"   -> "datetime64[ns]"
      [] col = "name_latin" -> "O"
      [] col = "geometry"   -> "geometry"

\* Row i of a caller's data: plot_id is always there, the other columns
\* have missing values in some rows.
CellOf(i, col) ==
    CASE col = "plot_id"    -> <<"num", i>>
      [] col = "score"      -> IF i % 3 = 0 THEN <<"nan", 0>> ELSE <<"num", i>>
      [] col = "eco_date"   -> IF i % 4 = 0 THEN <<"nat", 0>> ELSE <<"ts", i>>
      [] col = "name_latin" -> IF i % 5 = 0 THEN <<"none", 0>> ELSE <<"str", i>>
      [] col = "geometry"   -> <<"geom", i>>

DataFrame(n, hasGeometry) ==
    LET cols == BaseColumns \cup (IF hasGeometry THEN {"geometry"} ELSE {})
    IN [dtypes |-> [c \in cols |-> DtypeOf(c)],
        rows   |-> [i \in 1..n |-> [c \in cols |-> CellOf(i, c)]]]

Columns(df) == DOMAIN df.dtypes

\* gdf.drop(columns=[col], inplace=True)
DropColumn(df, col) ==
    [dtypes |-> [c \in Columns(df) \ {col} |-> df.dtypes[c]],
     rows   |-> [i \in 1..Len(df.rows) |->
                    [c \in Columns(df) \ {col} |-> df.rows[i][c]]]]

\* x.wkt
Wkt(cell) == <<"wkt", cell[2]>>

\* Series.astype(str): str() of every value, the missing ones included.
AstypeStr(cell) ==
    CASE cell[1] = "num"  -> <<"str_num", cell[2]>>
      [] cell[1] = "ts"   -> <<"str_ts", cell[2]>>
      [] cell[1] = "geom" -> <<"wkt", cell[2]>>
      [] cell[1] = "nan"  -> <<"str_nan", 0>>
      [] cell[1] = "nat"  -> <<"str_nat", 0>>
      [] cell[1] = "none" -> <<"str_none", 0>>
      [] OTHER            -> cell

\* gdf['geometry'] = gdf['geometry'].apply(lambda x: x.wkt) (line 279):
\* the column now holds text, dtype object.
ApplyWkt(df) ==
    [dtypes |-> [df.dtypes EXCEPT !["geometry"] = "O"],
     rows   |-> [i \in 1..Len(df.rows) |->
                    [df.rows[i] EXCEPT !["geometry"] = Wkt(@)]]]

\* gdf[col] = gdf[col].astype(str) (lines 285, 287): dtype object.
AstypeStrColumn(df, col) ==
    [dtypes |-> [df.dtypes EXCEPT ![col] = "O"],
     rows   |-> [i \in 1..Len(df.rows) |->
                    [df.rows[i] EXCEPT ![col] = AstypeStr(@)]]]

\* A geometry step without its second branch: the column is never dropped.
GeoStep_NeverDrops(df, geo) ==
    IF geo /\ "geometry" \in Columns(df) THEN ApplyWkt(df) ELSE df

\* Lines 278-281: the geometry column becomes WKT text or is dropped.
GeoStep(df, geo) ==
    IF geo /\ "geometry" \in Columns(df)
    THEN ApplyWkt(df)
    ELSE IF ~geo /\ "geometry" \in Columns(df)
         THEN DropColumn(df, "geometry")
         ELSE df

\* Lines 284-287, for one column.
CoerceColumn(df, col) ==
    LET d1 == IF df.dtypes[col] = "datetime64[ns]"
              THEN AstypeStrColumn(df, col)
              ELSE df
    IN IF d1.dtypes[col] = "O"
       THEN AstypeStrColumn(d1, col)
       ELSE d1

\* Lines 283-287: the loop over gdf.columns.
RECURSIVE CoerceColumns(_, _)
CoerceColumns(df, cols) ==
    IF cols = {} THEN df
    ELSE LET c == CHOOSE c \in cols : TRUE
         IN CoerceColumns(CoerceColumn(df, c), cols \ {c})

\* pandas' isna: NaN, NaT and None.
IsNA(cell) == cell[1] \in {"nan", "nat", "none"}

\* gdf.fillna('', inplace=True) (line 289).
Fillna(df) ==
    [dtypes |-> df.dtypes,
     rows   |-> [i \in 1..Len(df.rows) |->
                    [c \in Columns(df) |->
                        IF IsNA(df.rows[i][c]) THEN <<"empty", 0>>
                        ELSE df.rows[i][c]]]]

\* Lines 278-289: the frame after the geometry step, the dtype loop and
\* fillna, all of which assign into gdf.
PreparedFrame(df, geo) ==
    LET g1 == GeoStep(df, geo)
        g2 == CoerceColumns(g1, Columns(g1))
    IN Fillna(g2)

\* Lines 273-290: records = the prepared copy's rows.
ToRecords(df, geo) == PreparedFrame(df, geo).rows

\* A gdf that is the caller's frame itself rather than a copy of it.
CopyFrame_Alias(df) == [frame |-> df, shared |-> TRUE]

\* gdf = data.copy() (line 273): a new frame with the same columns and
\* values, sharing nothing with the caller's.
CopyFrame(df) == [frame |-> df, shared |-> FALSE]

\* A chunking that keeps the full batches only.
Chunks_FullOnly(recs) ==
    [k \in 1..(Len(recs) \div BatchSize) |->
        SubSeq(recs, (k - 1) * BatchSize + 1, k * BatchSize)]

\* Line 303: [records[i:i + batch_size] for i in range(0, len(records),
\* batch_size)].
Chunks(recs) ==
    [k \in 1..((Len(recs) + BatchSize - 1) \div BatchSize) |->
        SubSeq(recs, (k - 1) * BatchSize + 1,
               Min(k * BatchSize, Len(recs)))]

\* A batch loop that gives up at the first batch the remote refuses.
OnBatchResponse_Raises(status) ==
    [printed |-> status # 200,
     next    |-> IF status # 200 THEN "raised" ELSE "post"]

\* Lines 309-310: a refused batch is printed, and the loop goes on.
OnBatchResponse(status) ==
    [printed |-> status # 200, next |-> "post"]

\* A delete phase that lists the first page only.
ListingContinues_Never(body) == FALSE

\* `while 'offset' in response_json` (line 326).
ListingContinues(body) == body.offset # None

\* A delete loop that gives up at the first delete the remote refuses.
OnDeleteResponse_Stops(status) ==
    [printed |-> status # 200,
     next    |-> IF status # 200 THEN "raised" ELSE "delete"]

\* Lines 337-338: a refused delete is printed, and the loop goes on.
OnDeleteResponse(status) ==
    [printed |-> status # 200, next |-> "delete"]

\* The events of the wire: a request with its answer's status, or a sleep.
Request(op, arg, status) ==
    [op |-> op, arg |-> arg, status |-> status, headers |-> UploadHeaders]
Sleep == [op |-> "sleep", arg |-> <<>>, status |-> 0, headers |-> NoHeaders]

\* The ids the remote gives the uploaded records: their plot_id, and 1
\* for the record of a log entry.
IdsOf(chunk) ==
    [k \in 1..Len(chunk) |->
        IF "plot_id" \in DOMAIN chunk[k] THEN chunk[k]["plot_id"][2] ELSE 1]

\* The answer to a listing of the destination table from record `start`.
DestListBody(start, status) ==
    IF status = 200
    THEN [records |-> Some(SubSeq(dest, start,
                              Min(start + ListPageLen - 1, Len(dest)))),
          offset  |-> IF start + ListPageLen <= Len(dest)
                      THEN Some(start + ListPageLen) ELSE None]
    ELSE [records |-> None, offset |-> None]

Remove(seq, x) == SelectSeq(seq, LAMBDA e : e # x)

\* The events and the infos a caller logs, by number (lines 185-189,
\* 205-245: 'Total KMLs downloaded:', str(good_plots), ...).
LogEvents == {1, 2, 3}
LogInfos == {1, 2, 3}

\* pd.DataFrame({'Event': [event], 'Info': [info]}) (line 344): one row of
\* two columns of str.
LogFrame(event, info) ==
    [dtypes |-> [c \in {"Event", "Info"} |-> "O"],
     rows   |-> <<[c \in {"Event", "Info"} |->
                     IF c = "Event" THEN <<"str", event>>
                     ELSE <<"str", info>>]>>]

\* A log_entry that asks for the Logs table to be emptied first.
LogEntry_DeleteAll(event, info) ==
    /\ upc = "nocall"
    /\ log_args' = Some(<<event, info>>)
    /\ data' = LogFrame(event, info)
    /\ table_name' = "Logs"
    /\ insert_geo' = FALSE
    /\ delete_all' = TRUE
    /\ upc' = "idle"
    /\ UNCHANGED <<records, ci, all_record_ids, list_offset, di, dest, wire,
                   stdout>>
    /\ UNCHANGED <<fetchVars, resolveVars>>
    /\ UNCHANGED <<clearVars, templateVars, operation>>

\* log_entry (lines 342-345): upload_results(df, "Logs", insert_geo=False,
\* delete_all=False) is called; its steps follow.
LogEntry(event, info) ==
    /\ upc = "nocall"
    /\ log_args' = Some(<<event, info>>)
    /\ data' = LogFrame(event, info)
    /\ table_name' = "Logs"
    /\ insert_geo' = FALSE
    /\ delete_all' = FALSE
    /\ upc' = "idle"
    /\ UNCHANGED <<records, ci, all_record_ids, list_offset, di, dest, wire,
                   stdout>>
    /\ UNCHANGED <<fetchVars, resolveVars>>
    /\ UNCHANGED <<clearVars, templateVars, operation>>

\* A delete phase that runs whatever the flag says.
DeletePhaseRuns_Always(flag) == TRUE

\* Lines 298-299: the delete phase runs only when delete_all is set.
DeletePhaseRuns(flag) == flag

\* Lines 273-299: the copy is prepared, then the delete phase starts if
\* asked for.
UploadPrepare ==
    /\ upc = "idle"
    /\ LET gdf == CopyFrame(data)
       IN /\ records' = ToRecords(gdf.frame, insert_geo)
          /\ data' = IF gdf.shared
                     THEN PreparedFrame(gdf.frame, insert_geo)
                     ELSE data
    /\ ci' = 1
    /\ upc' = IF DeletePhaseRuns(delete_all) THEN "delete_list" ELSE "post"
    /\ UNCHANGED <<table_name, log_args, insert_geo, delete_all, all_record_ids,
                   list_offset, di, dest, wire, stdout>>
    /\ UNCHANGED <<fetchVars, resolveVars>>
    /\ UNCHANGED <<clearVars, templateVars, operation>>

\* _delete_all_records, lines 314-322: the first listing request.
DeleteListFirst ==
    /\ upc = "delete_list"
    /\ \E status \in WriteStatusCodes :
         LET body == DestListBody(1, status)
         IN
         /\ wire' = Append(wire, Request("GET", None, status))
         /\ IF status # 200
            THEN /\ stdout' = Append(stdout, "Error fetching record IDs:")
                 /\ upc' = "post"
                 /\ UNCHANGED <<all_record_ids, list_offset>>
            ELSE /\ all_record_ids' = GetRecords(body)
                 /\ list_offset' = body.offset
                 /\ upc' = IF ListingContinues(body) THEN "delete_next"
                           ELSE "delete"
                 /\ UNCHANGED stdout
    /\ di' = 1
    /\ UNCHANGED <<table_name, log_args, data, insert_geo, delete_all, records, ci, dest>>
    /\ UNCHANGED <<fetchVars, resolveVars>>
    /\ UNCHANGED <<clearVars, templateVars, operation>>

\* Lines 326-331: one more listing request, its status unchecked.
DeleteListNext ==
    /\ upc = "delete_next"
    /\ \E status \in WriteStatusCodes :
         LET body == DestListBody(list_offset[1], status)
         IN
         /\ wire' = Append(wire, Request("GET", list_offset, status))
         /\ all_record_ids' = all_record_ids \o GetRecords(body)
         /\ list_offset' = body.offset
         /\ upc' = IF ListingContinues(body) THEN "delete_next"
                   ELSE "delete"
    /\ UNCHANGED <<table_name, log_args, data, insert_geo, delete_all, records, ci, di, dest,
                   stdout>>
    /\ UNCHANGED <<fetchVars, resolveVars>>
    /\ UNCHANGED <<clearVars, templateVars, operation>>

\* Lines 334-338: one record deleted, then the pacing sleep.
DeleteRecord ==
    /\ upc = "delete"
    /\ di <= Len(all_record_ids)
    /\ \E status \in WriteStatusCodes :
         LET record_id == all_record_ids[di]
             r         == OnDeleteResponse(status)
         IN
         /\ wire' = wire \o <<Request("DELETE", Some(record_id), status),
                              Sleep>>
         /\ dest' = IF status = 200 THEN Remove(dest, record_id) ELSE dest
         /\ stdout' = IF r.printed
                      THEN Append(stdout, "Error deleting record")
                      ELSE stdout
         /\ upc' = r.next
    /\ di' = di + 1
    /\ UNCHANGED <<table_name, log_args, data, insert_geo, delete_all,
                   records, ci, all_record_ids, list_offset>>
    /\ UNCHANGED <<fetchVars, resolveVars>>
    /\ UNCHANGED <<clearVars, templateVars, operation>>

\* Line 340: _delete_all_records returns, the batch writes follow.
DeleteDone ==
    /\ upc = "delete"
    /\ di > Len(all_record_ids)
    /\ upc' = "post"
    /\ UNCHANGED <<table_name, log_args, data, insert_geo, delete_all, records, ci,
                   all_record_ids, list_offset, di, dest, wire, stdout>>
    /\ UNCHANGED <<fetchVars, resolveVars>>
    /\ UNCHANGED <<clearVars, templateVars, operation>>

\* Lines 305-310: one chunk posted, the pacing sleep, the status looked at.
PostBatch ==
    /\ upc = "post"
    /\ ci <= Len(Chunks(records))
    /\ \E status \in WriteStatusCodes :
         LET chunk == Chunks(records)[ci]
             r     == OnBatchResponse(status)
         IN
         /\ wire' = wire \o <<Request("POST", chunk, status), Sleep>>
         /\ dest' = IF status = 200 THEN dest \o IdsOf(chunk) ELSE dest
         /\ stdout' = IF r.printed THEN Append(stdout, "Error:") ELSE stdout
         /\ upc' = r.next
    /\ ci' = ci + 1
    /\ UNCHANGED <<table_name, log_args, data, insert_geo, delete_all, records, all_record_ids,
                   list_offset, di>>
    /\ UNCHANGED <<fetchVars, resolveVars>>
    /\ UNCHANGED <<clearVars, templateVars, operation>>

\* The loop of line 305 is over: upload_results returns.
UploadReturn ==
    /\ upc = "post"
    /\ ci > Len(Chunks(records))
    /\ upc' = "returned"
    /\ UNCHANGED <<table_name, log_args, data, insert_geo, delete_all, records, ci,
                   all_record_ids, list_offset, di, dest, wire, stdout>>
    /\ UNCHANGED <<fetchVars, resolveVars>>
    /\ UNCHANGED <<clearVars, templateVars, operation>>

(* ----------------------------- clear_tables ---------------------------- *)
\* Nested clear_tables invocations followed.
MaxDepth == 3
\* Records a table holds before the call.
MaxHeld == 1
\* The two rounds of triggers (lines 350-353), the settle wait (line 355)
\* and the final wait (line 377).
TriggerRounds == 2
SettleSeconds == 5
FinalSeconds == 10

ClearTableNames == {"Plots", "Results"}
\* get_config_value("BIOCREDITS-CALC", "DELETE_TABLE_WEBHOOK", table): None
\* when the table has no entry, else the configured string.
WebhookUrls == {None, Some(""), Some("https://hook")}
\* Statuses of a verification GET.
VerifyStatusCodes == {200, 503}

\* The table_names of a call: no table twice.
TableLists ==
    {<<>>} \cup {<<a>> : a \in ClearTableNames}
           \cup {s \in ClearTableNames \X ClearTableNames : s[1] # s[2]}

\* A trigger that posts whether or not a URL is configured.
ShouldPost_Always(url) == TRUE

\* `if url:` (line 382)
ShouldPost(url) == Truthy(url)

\* The JSON body of a verification GET (first page of the table): a
\* records list on 200, an error object without one otherwise.
VerifyBody(status, held) ==
    [records |-> IF status = 200 THEN Some(held) ELSE None]

\* len(response_json.get('records', [])) (line 371)
RecordCount(body) == IF body.records = None THEN 0 ELSE body.records[1]

\* The test of line 371.
StillHolds(body) == RecordCount(body) > 0

\* A retry on all the tables of the invocation.
RetryTables_All(f) == f.table_names

\* The argument of the recursive call (line 375).
RetryTables(f) == f.delete_again

\* One entry of clog.  n is the round of a trigger, the number of records
\* a verification got, the seconds of a sleep; held is what the table
\* held when it was verified.
ClearEvent(ev, depth, t, status, n, held, tables) ==
    [ev |-> ev, depth |-> depth, table |-> t, status |-> status, n |-> n,
     held |-> held, tables |-> tables,
     headers |-> IF ev = "trigger" THEN WebhookHeaders
                 ELSE IF ev = "verify" THEN VerifyHeaders ELSE NoHeaders]

\* An invocation that starts at its settle wait.
NewFrame_NoTriggers(tn) ==
    [table_names |-> tn, phase |-> "sleep5",
     round |-> 1, i |-> 1, delete_again |-> <<>>]

\* The frame of a clear_tables invocation at its first statement.
NewFrame(tn) ==
    [table_names |-> tn,
     phase |-> IF tn = <<>> THEN "sleep5" ELSE "trigger",
     round |-> 1, i |-> 1, delete_again |-> <<>>]

Top == stack[Len(stack)]
SetTop(f) == [stack EXCEPT ![Len(stack)] = f]

\* The pipeline calls clear_tables(requested).
ClearTablesCall ==
    /\ cpc = "idle"
    /\ stack' = <<NewFrame(requested)>>
    /\ clog' = Append(clog, ClearEvent("call", 1, "", 0, 0, 0, requested))
    /\ cpc' = "running"
    /\ UNCHANGED <<urlOf, remote, pending, requested>>
    /\ UNCHANGED <<fetchVars, resolveVars, uploadVars, templateVars, operation>>

\* One _trigger_delete_webhook(table) of the two loops of lines 350-353
\* (lines 379-384): a POST to the table's URL when it has one.  The answer
\* is not looked at; the POST schedules the hook, which runs later or
\* never (HookRuns).
TriggerDeleteWebhook ==
    /\ cpc = "running"
    /\ Top.phase = "trigger"
    /\ LET f == Top
           t == f.table_names[f.i]
           next == IF f.i < Len(f.table_names)
                   THEN [f EXCEPT !.i = f.i + 1]
                   ELSE IF f.round < TriggerRounds
                        THEN [f EXCEPT !.round = f.round + 1, !.i = 1]
                        ELSE [f EXCEPT !.phase = "sleep5", !.i = 1]
       IN /\ stack' = SetTop(next)
          /\ IF ShouldPost(urlOf[t])
             THEN /\ clog' = Append(clog,
                        ClearEvent("trigger", Len(stack), t, 0, f.round, 0,
                                   <<>>))
                  /\ pending' = pending \cup {t}
             ELSE UNCHANGED <<clog, pending>>
    /\ UNCHANGED <<urlOf, remote, requested, cpc>>
    /\ UNCHANGED <<fetchVars, resolveVars, uploadVars, templateVars, operation>>

\* time.sleep(5) (line 355); delete_again = [] (line 358).
ClearSettle ==
    /\ cpc = "running"
    /\ Top.phase = "sleep5"
    /\ clog' = Append(clog,
          ClearEvent("sleep", Len(stack), "", 0, SettleSeconds, 0, <<>>))
    /\ stack' = SetTop([Top EXCEPT
          !.phase = IF Top.table_names = <<>> THEN "sleep10" ELSE "verify"])
    /\ UNCHANGED <<urlOf, remote, pending, requested, cpc>>
    /\ UNCHANGED <<fetchVars, resolveVars, uploadVars, templateVars, operation>>

\* One turn of the verification loop (lines 362-372): GET the table, no
\* status check, and append it to delete_again when the body lists a
\* record.  After the last table, lines 374-375 choose between the retry
\* and the final wait.
ClearVerify ==
    /\ cpc = "running"
    /\ Top.phase = "verify"
    /\ \E status \in VerifyStatusCodes :
         LET f == Top
             t == f.table_names[f.i]
             body == VerifyBody(status, remote[t])
             da == IF StillHolds(body) THEN Append(f.delete_again, t)
                   ELSE f.delete_again
             next == IF f.i < Len(f.table_names)
                     THEN [f EXCEPT !.i = f.i + 1, !.delete_again = da]
                     ELSE [f EXCEPT !.delete_again = da,
                              !.phase = IF Len(da) > 0 THEN "retry"
                                        ELSE "sleep10"]
         IN /\ stack' = SetTop(next)
            /\ clog' = Append(clog,
                  ClearEvent("verify", Len(stack), t, status,
                             RecordCount(body), remote[t], <<>>))
    /\ UNCHANGED <<urlOf, remote, pending, requested, cpc>>
    /\ UNCHANGED <<fetchVars, resolveVars, uploadVars, templateVars, operation>>

\* self.clear_tables(delete_again) (line 375): a new invocation; the
\* caller goes on at line 377 when it returns.
ClearRetry ==
    /\ cpc = "running"
    /\ Top.phase = "retry"
    /\ Len(stack) < MaxDepth
    /\ stack' = Append(SetTop([Top EXCEPT !.phase = "sleep10"]),
                       NewFrame(RetryTables(Top)))
    /\ clog' = Append(clog,
          ClearEvent("call", Len(stack) + 1, "", 0, 0, 0, RetryTables(Top)))
    /\ UNCHANGED <<urlOf, remote, pending, requested, cpc>>
    /\ UNCHANGED <<fetchVars, resolveVars, uploadVars, templateVars, operation>>

\* time.sleep(10) (line 377) and the return of the invocation.
ClearFinalWait ==
    /\ cpc = "running"
    /\ Top.phase = "sleep10"
    /\ clog' = Append(clog,
          ClearEvent("sleep", Len(stack), "", 0, FinalSeconds, 0, <<>>))
    /\ stack' = SubSeq(stack, 1, Len(stack) - 1)
    /\ cpc' = IF Len(stack) = 1 THEN "returned" ELSE "running"
    /\ UNCHANGED <<urlOf, remote, pending, requested>>
    /\ UNCHANGED <<fetchVars, resolveVars, uploadVars, templateVars, operation>>

\* The remote side: the deletion hook of a triggered table runs and
\* empties it.  Nothing says when, or that it ever does.
HookRuns ==
    /\ \E t \in pending :
         /\ remote' = [remote EXCEPT ![t] = 0]
         /\ pending' = pending \ {t}
    /\ UNCHANGED <<urlOf, requested, stack, clog, cpc>>
    /\ UNCHANGED <<fetchVars, resolveVars, uploadVars, templateVars, operation>>

\* No clear_tables call is made.
InitNoClear ==
    /\ urlOf = [t \in ClearTableNames |-> None]
    /\ remote = [t \in ClearTableNames |-> 0]
    /\ pending = {}
    /\ requested = <<>>
    /\ stack = <<>>
    /\ clog = <<>>
    /\ cpc = "nocall"

(* -------------------------- template backends -------------------------- *)
\* Operations called on a template backend in one behaviour.
MaxTemplateCalls == 2

TemplateBackends == {"PostgresAdapter", "RestAPIAdapter"}
\* save_directory and save_shp_directory, each absent, empty or with files.
Directories == {"save_directory", "save_shp_directory"}
DirStates == {"absent", "empty", "files"}

\* An operation that ends in `raise NotImplementedError(...)`.
Raises == "NotImplementedError"

\* A clear_tables that falls off its end.
TemplateOutcome_ClearReturns(op) ==
    IF op \in {"log_entry", "clear_tables"} THEN "returned" ELSE Raises

\* How an operation of a template ends: log_entry has no raise statement
\* (example_postgres_adapter.py line 132, example_rest_api_adapter.py line
\* 182), every other operation ends in one.
TemplateOutcome(op) == IF op = "log_entry" THEN "returned" ELSE Raises

\* The loop of example_rest_api_adapter.py lines 85-90: makedirs when the
\* directory is absent, rmtree and makedirs when it exists.
RecreateDirs(dirs) == [d \in Directories |-> "empty"]

\* The requests an operation of a template sends: every _make_request
\* and requests.get call of the operations is commented out
\* (example_rest_api_adapter.py lines 93-104, 133, 163-169, 181, 192, 203,
\* 216), and the relational template never opens a cursor.
TemplateRequests(b, op) == <<>>

\* The call of `op` on backend b, recorded with how it ended.
TemplateCall(b, op) ==
    /\ tpc = "idle"
    /\ Len(tcalls) < MaxTemplateCalls
    /\ tcalls' = Append(tcalls,
          [backend |-> b, op |-> op, outcome |-> TemplateOutcome(op)])
    /\ trequests' = trequests \o TemplateRequests(b, op)
    /\ UNCHANGED tpc
    /\ UNCHANGED <<fetchVars, resolveVars, uploadVars, clearVars, operation>>

TemplateDownloadLandData(b) ==
    /\ TemplateCall(b, "download_land_data")
    /\ tdirs' = IF b = "RestAPIAdapter" THEN RecreateDirs(tdirs) ELSE tdirs
    /\ UNCHANGED tstdout

TemplateDownloadObservations(b) ==
    /\ TemplateCall(b, "download_observations")
    /\ UNCHANGED <<tdirs, tstdout>>

TemplateUploadResults(b) ==
    /\ TemplateCall(b, "upload_results")
    /\ UNCHANGED <<tdirs, tstdout>>

\* print(f"LOG [{event}]: {info}")
TemplateLogEntry(b, event, info) ==
    /\ TemplateCall(b, "log_entry")
    /\ tstdout' = Append(tstdout, <<event, info>>)
    /\ UNCHANGED tdirs

TemplateClearTables(b) ==
    /\ TemplateCall(b, "clear_tables")
    /\ UNCHANGED <<tdirs, tstdout>>

TemplateGetAreaCertifier(b) ==
    /\ TemplateCall(b, "get_area_certifier")
    /\ UNCHANGED <<tdirs, tstdout>>

TemplateFetchLinkedRecordName(b) ==
    /\ TemplateCall(b, "fetch_linked_record_name")
    /\ UNCHANGED <<tdirs, tstdout>>

\* No template backend is in use.
InitNoTemplate ==
    /\ tdirs = [d \in Directories |-> "absent"]
    /\ tcalls = <<>>
    /\ tstdout = <<>>
    /\ trequests = <<>>
    /\ tpc = "nocall"

\* No upload is running.
InitUploadLocals ==
    /\ upc = "idle"
    /\ records = <<>>
    /\ ci = 1
    /\ all_record_ids = <<>>
    /\ list_offset = None
    /\ di = 1
    /\ wire = <<>>
    /\ stdout = <<>>

InitNoUpload ==
    /\ table_name = "Results"
    /\ log_args = None
    /\ data = DataFrame(0, FALSE)
    /\ insert_geo = FALSE
    /\ delete_all = FALSE
    /\ dest = <<>>
    /\ InitUploadLocals

InitFetchLocals ==
    /\ fpc = "idle"
    /\ all_records = <<>>
    /\ offset = None
    /\ fetchLog = <<>>
    /\ fetchResult = None

InitTable ==
    /\ \E n \in 1..MaxPages :
         \E sizes \in [1..n -> 0..MaxPageLen] :
           \E toks \in [1..(n - 1) -> Tokens] :
             /\ Injective(toks)
             /\ table = MakeTable(n, sizes, toks)
    /\ view_id \in ViewIds

InitFetch ==
    /\ InitTable
    /\ InitFetchLocals
    /\ InitResolver
    /\ InitNoUpload
    /\ InitNoClear
    /\ InitNoTemplate
    /\ operation = "_fetch_all_records"

NextFetch ==
    \/ FetchStart
    \/ FetchPage
    \/ FetchReturn

SpecFetch == InitFetch /\ [][NextFetch]_vars

\* The resolver alone: any sequence of calls of the two resolvers, on the
\* default cache or on a caller's.  No table is being fetched.
InitResolve ==
    /\ table = MakeTable(1, <<0>>, <<>>)
    /\ view_id = None
    /\ InitFetchLocals
    /\ InitResolver
    /\ InitNoUpload
    /\ InitNoClear
    /\ InitNoTemplate
    /\ operation = "fetch_linked_record_name"

NextResolve ==
    \/ \E record_id \in LinkIds, field_name \in FieldNames :
         \E cacheArg \in {None} \cup {Some(c) : c \in CallerCaches} :
           FetchLinkedRecordName(record_id, field_name, cacheArg)
    \/ \E record_id \in LinkIds, field_name \in FieldNames :
         \E c \in CallerCaches :
           FetchLinkedRecordDirect(record_id, field_name, c)

SpecResolve == InitResolve /\ [][NextResolve]_vars

\* End to end: a two-page table whose first page carries the cursor "c1"
\* is fetched, and once the fetch has returned the caller resolves record
\* ids found in the fetched data (as download_land_data does, lines
\* 103-170).
Range(seq) == {seq[i] : i \in 1..Len(seq)}

FetchedIds == IF fetchResult = None THEN {} ELSE Range(fetchResult[1])

InitE2ECall ==
    /\ \E sizes \in [1..2 -> 1..MaxPageLen] :
         table = MakeTable(2, sizes, <<"c1">>)
    /\ view_id = None
    /\ InitFetchLocals
    /\ InitNoUpload
    /\ InitNoClear
    /\ InitNoTemplate
    /\ operation = "download_land_data"

InitE2E == InitE2ECall /\ InitResolver

NextE2E ==
    \/ FetchStart
    \/ FetchPage
    \/ FetchReturn
    \/ /\ fpc = "returned"
       /\ \E record_id \in FetchedIds \cap LinkIds, field_name \in FieldNames :
            \E cacheArg \in {None} \cup {Some(c) : c \in CallerCaches} :
              FetchLinkedRecordName(record_id, field_name, cacheArg)

SpecE2E == InitE2E /\ [][NextE2E]_vars

\* One upload_results call: any data of up to MaxRecords rows, with or
\* without a geometry column, any flags, a destination table that holds
\* up to MaxDest records (ids -1, -2, ...) beforehand.
InitUploadCall ==
    /\ \E n \in 0..MaxRecords, hasGeometry \in BOOLEAN :
         data = DataFrame(n, hasGeometry)
    /\ insert_geo \in BOOLEAN
    /\ delete_all \in BOOLEAN
    /\ \E m \in 0..MaxDest : dest = [k \in 1..m |-> 0 - k]
    /\ table_name = "Results"
    /\ log_args = None
    /\ InitUploadLocals
    /\ table = MakeTable(1, <<0>>, <<>>)
    /\ view_id = None
    /\ InitFetchLocals
    /\ InitNoClear
    /\ InitNoTemplate
    /\ operation = "upload_results"

InitUpload == InitUploadCall /\ InitResolver

NextUpload ==
    \/ UploadPrepare
    \/ DeleteListFirst
    \/ DeleteListNext
    \/ DeleteRecord
    \/ DeleteDone
    \/ PostBatch
    \/ UploadReturn

SpecUpload == InitUpload /\ [][NextUpload]_vars

\* One log_entry call on an adapter whose Logs table holds up to MaxDest
\* records beforehand.
InitLogEntry ==
    /\ table_name = "Logs"
    /\ log_args = None
    /\ data = DataFrame(0, FALSE)
    /\ insert_geo = FALSE
    /\ delete_all = FALSE
    /\ \E m \in 0..MaxDest : dest = [k \in 1..m |-> 0 - k]
    /\ upc = "nocall"
    /\ records = <<>>
    /\ ci = 1
    /\ all_record_ids = <<>>
    /\ list_offset = None
    /\ di = 1
    /\ wire = <<>>
    /\ stdout = <<>>
    /\ table = MakeTable(1, <<0>>, <<>>)
    /\ view_id = None
    /\ InitFetchLocals
    /\ InitNoClear
    /\ InitNoTemplate
    /\ operation = "log_entry"

InitLogCall == InitLogEntry /\ InitResolver

\* The adapter's two ways into upload_results: through log_entry, or
\* called by the pipeline itself.
InitLog == InitLogCall \/ InitUpload

NextLog ==
    \/ \E event \in LogEvents, info \in LogInfos : LogEntry(event, info)
    \/ NextUpload

SpecLog == InitLog /\ [][NextLog]_vars

\* One clear_tables call: any configuration of trigger URLs, tables that
\* hold up to MaxHeld records, any list of tables.
InitClearCall ==
    /\ urlOf \in [ClearTableNames -> WebhookUrls]
    /\ remote \in [ClearTableNames -> 0..MaxHeld]
    /\ pending = {}
    /\ requested \in TableLists
    /\ stack = <<>>
    /\ clog = <<>>
    /\ cpc = "idle"
    /\ table = MakeTable(1, <<0>>, <<>>)
    /\ view_id = None
    /\ InitFetchLocals
    /\ InitNoUpload
    /\ InitNoTemplate
    /\ operation = "clear_tables"

InitClear == InitClearCall /\ InitResolver

NextClear ==
    \/ ClearTablesCall
    \/ TriggerDeleteWebhook
    \/ ClearSettle
    \/ ClearVerify
    \/ ClearRetry
    \/ ClearFinalWait
    \/ HookRuns

SpecClear == InitClear /\ [][NextClear]_vars

\* The same call with the program running on: every statement of
\* clear_tables that can be executed eventually is.  Nothing is assumed of
\* the deletion hook.
FairClear ==
    /\ WF_vars(ClearTablesCall)
    /\ WF_vars(TriggerDeleteWebhook)
    /\ WF_vars(ClearSettle)
    /\ WF_vars(ClearVerify)
    /\ WF_vars(ClearRetry)
    /\ WF_vars(ClearFinalWait)

SpecClearFair == InitClear /\ [][NextClear]_vars /\ FairClear

\* The adapter in use: one operation of AirtableAdapter, called on an
\* adapter whose default cache may already hold a record from earlier
\* resolver calls.  download_land_data is the fetch followed by resolver
\* calls; get_area_certifier and download_observations are made of the
\* same pieces (_fetch_all_records, _fetch_linked_record_direct).
PriorCaches ==
    {[c \in CacheNames |-> <<>>],
     [c \in CacheNames |->
        IF c = DefaultCache
        THEN CacheStore(<<>>, 1, GetField(RecordFields(1), "CODE"))
        ELSE <<>>]}

InitUsedResolver ==
    /\ caches \in PriorCaches
    /\ calls = <<>>
    /\ rpc = "running"

InitAdapter ==
    \/ InitResolve
    \/ InitE2ECall /\ InitUsedResolver
    \/ InitUploadCall /\ InitUsedResolver
    \/ InitLogEntry /\ InitUsedResolver
    \/ InitClearCall /\ InitUsedResolver

NextAdapter ==
    \/ operation = "fetch_linked_record_name" /\ NextResolve
    \/ operation = "download_land_data" /\ NextE2E
    \/ operation \in {"upload_results", "log_entry"} /\ NextLog
    \/ operation = "clear_tables" /\ NextClear

SpecAdapter == InitAdapter /\ [][NextAdapter]_vars

\* The operations of the two template backends, called in any order on
\* any state of the two directories.
InitTemplate ==
    /\ tdirs \in [Directories -> DirStates]
    /\ tcalls = <<>>
    /\ tstdout = <<>>
    /\ trequests = <<>>
    /\ tpc = "idle"
    /\ table = MakeTable(1, <<0>>, <<>>)
    /\ view_id = None
    /\ InitFetchLocals
    /\ InitResolver
    /\ InitNoUpload
    /\ InitNoClear
    /\ operation = "template"

NextTemplate ==
    \/ \E b \in TemplateBackends : TemplateDownloadLandData(b)
    \/ \E b \in TemplateBackends : TemplateDownloadObservations(b)
    \/ \E b \in TemplateBackends : TemplateUploadResults(b)
    \/ \E b \in TemplateBackends, event \in LogEvents, info \in LogInfos :
         TemplateLogEntry(b, event, info)
    \/ \E b \in TemplateBackends : TemplateClearTables(b)
    \/ \E b \in TemplateBackends : TemplateGetAreaCertifier(b)
    \/ \E b \in TemplateBackends : TemplateFetchLinkedRecordName(b)

SpecTemplate == InitTemplate /\ [][NextTemplate]_vars

(* ======================= properties: the fetcher ======================= *)
NonSuccess(status) == status \notin 200..299

\* C1: when _fetch_all_records returns, it returns every record of the
\* table's N pages, each once, in page order and then in within-page
\* order, and it has issued exactly N page requests.
C1_FetchReturnsAllPages ==
    fpc = "returned" =>
        /\ fetchResult = Some(TableRecords)
        /\ Len(fetchLog) = Len(table)

\* C2: a page request answered with a non-success status is the last one
\* issued, the fetch ends in an error, and nothing is returned, the records
\* of the pages fetched before it included.
C2_FetchErrorAborts ==
    \A i \in 1..Len(fetchLog) :
        NonSuccess(fetchLog[i].status) =>
            /\ i = Len(fetchLog)
            /\ fpc = "raised"
            /\ fetchResult = None

\* A fetch that failed after at least one page had been accumulated.
C2_Witness ==
    /\ fpc = "raised"
    /\ Len(fetchLog) >= 2
    /\ all_records # <<>>
    /\ NonSuccess(fetchLog[Len(fetchLog)].status)

\* C3: the first page request carries no cursor; a further request is
\* issued if and only if the response before it carries a continuation
\* token, whatever string that token is; and that request carries exactly
\* that token.
C3_CursorProtocol ==
    /\ \A i \in 1..Len(fetchLog) :
         fetchLog[i].params.offset =
            IF i = 1 THEN None ELSE fetchLog[i - 1].offset
    /\ \A i \in 1..(Len(fetchLog) - 1) : fetchLog[i].offset # None
    /\ fpc \in {"break", "returned"} => fetchLog[Len(fetchLog)].offset = None

(* ====================== properties: the resolver ======================= *)
SameSlot(i, j) ==
    /\ calls[i].cache = calls[j].cache
    /\ calls[i].record_id = calls[j].record_id

Succeeded(i) == calls[i].requested /\ calls[i].status = Some(200)
Failed(i) == calls[i].requested /\ calls[i].status # Some(200)

\* The requests issued for `record_id` by the calls that used cache `c`.
RequestsFor(c, record_id) ==
    {i \in 1..Len(calls) :
        /\ calls[i].cache = c
        /\ calls[i].record_id = record_id
        /\ calls[i].requested}

\* C4 as stated: through one cache, at most one single-record request is
\* ever issued for a record id.
C4_AtMostOneRequestPerId ==
    \A c \in CacheNames, record_id \in LinkIds :
        Cardinality(RequestsFor(c, record_id)) <= 1

\* C4 as amended: a call issues a request exactly when no earlier call for
\* the same id through the same cache had its fetch succeed.  So at most one
\* successful request is issued per id, a failed fetch is followed by a new
\* request, and two ids not yet in the cache cost two requests.
C4_OneSuccessfulRequestPerId ==
    \A j \in 1..Len(calls) :
        calls[j].requested =
            ~(\E i \in 1..(j - 1) : SameSlot(i, j) /\ Succeeded(i))

\* The same id resolved twice with one request, and two different ids
\* resolved through one cache with a request each.
C4_Witness ==
    /\ \E i, j \in 1..Len(calls) :
         i < j /\ SameSlot(i, j) /\ Succeeded(i) /\ ~calls[j].requested
    /\ \E i, j \in 1..Len(calls) :
         /\ calls[i].cache = calls[j].cache
         /\ calls[i].record_id # calls[j].record_id
         /\ calls[i].requested /\ calls[j].requested

\* C5: once a value is stored for a record id, that entry of that cache is
\* never changed and never removed.
C5_CacheWriteOnce ==
    [][\A c \in CacheNames : \A record_id \in DOMAIN caches[c] :
          /\ record_id \in DOMAIN caches'[c]
          /\ caches'[c][record_id] = caches[c][record_id]]_vars

\* An entry survived a later call for its id that asked for another field,
\* and a later call that stored another id in the same cache.
C5_Witness ==
    /\ \E i, j \in 1..Len(calls) :
         /\ i < j /\ SameSlot(i, j) /\ Succeeded(i)
         /\ calls[j].field_name # calls[i].field_name
    /\ \E c \in CacheNames : Cardinality(DOMAIN caches[c]) >= 2

\* C7: a resolver call whose single-record fetch does not succeed returns
\* None and does not raise, so the caller's pass goes on; every call whose
\* fetch succeeds returns the record's value of the field.
C7_FailsSoftly ==
    /\ rpc = "running"
    /\ \A i \in 1..Len(calls) :
         /\ calls[i].kind = "return"
         /\ Failed(i) => calls[i].ret = None
         /\ Succeeded(i) =>
              calls[i].ret =
                 GetField(RecordFields(calls[i].record_id), calls[i].field_name)

\* A failed fetch followed, in the same pass, by a call that resolved a
\* value.
C7_Witness ==
    \E i, j \in 1..Len(calls) :
        i < j /\ Failed(i) /\ Succeeded(j) /\ calls[j].ret # None

\* C8: after a call has fetched a record id through a cache, a call for the
\* same id through the same cache under another field name issues no
\* request and returns the first field's value.
C8_SecondFieldGetsFirstValue ==
    \A i, j \in 1..Len(calls) :
        (/\ i < j /\ SameSlot(i, j) /\ Succeeded(i)
         /\ calls[j].field_name # calls[i].field_name)
        => /\ ~calls[j].requested
           /\ calls[j].ret =
                GetField(RecordFields(calls[i].record_id), calls[i].field_name)

\* The second field's value on the record differs from what was returned.
C8_Witness ==
    \E i, j \in 1..Len(calls) :
        /\ i < j /\ SameSlot(i, j) /\ Succeeded(i)
        /\ calls[j].field_name # calls[i].field_name
        /\ calls[j].ret # None
        /\ GetField(RecordFields(calls[j].record_id), calls[j].field_name) # None
        /\ calls[j].ret #
             GetField(RecordFields(calls[j].record_id), calls[j].field_name)

(* ======================== properties: end to end ======================= *)
\* C6 as stated: once _fetch_all_records has returned, every
\* fetch_linked_record_name call for a record id of the fetched data
\* returns the record's field value from the cache, without a request.
C6_FetchedIdsAreCached ==
    \A j \in 1..Len(calls) :
        (fpc = "returned" /\ calls[j].record_id \in FetchedIds) =>
            /\ ~calls[j].requested
            /\ calls[j].ret =
                 GetField(RecordFields(calls[j].record_id), calls[j].field_name)

\* C6 as amended: _fetch_all_records stores nothing in any cache, so after
\* it has returned the caches are as they were, and a call for a record id
\* of the fetched data issues a single-record request unless an earlier
\* call for that id through the same cache had its fetch succeed; from then
\* on the calls for that id return the value that call stored, without a
\* request.
C6_ResolveAfterFetch ==
    /\ calls = <<>> => \A c \in CacheNames : DOMAIN caches[c] = {}
    /\ \A j \in 1..Len(calls) :
         /\ fpc = "returned"
         /\ calls[j].record_id \in FetchedIds
         /\ calls[j].requested =
               ~(\E i \in 1..(j - 1) : SameSlot(i, j) /\ Succeeded(i))
         /\ ~calls[j].requested =>
               \E i \in 1..(j - 1) :
                  /\ SameSlot(i, j) /\ Succeeded(i)
                  /\ calls[j].ret = calls[i].ret

\* The fetch has returned both pages; a record id of page 1 was resolved
\* with one request and then again from the cache.
C6_Witness ==
    /\ fpc = "returned"
    /\ fetchResult = Some(TableRecords)
    /\ \E i, j \in 1..Len(calls) :
         /\ i < j /\ SameSlot(i, j) /\ Succeeded(i)
         /\ calls[i].record_id \in Range(table[1].records)
         /\ ~calls[j].requested
         /\ calls[j].ret # None
         /\ calls[j].ret =
              GetField(RecordFields(calls[j].record_id), calls[j].field_name)

(* ====================== properties: the uploader ======================= *)
\* The batch writes issued so far, in order.
Posts == SelectSeq(wire, LAMBDA e : e.op = "POST")

RECURSIVE ConcatBatches(_, _)
ConcatBatches(posts, k) ==
    IF k = 0 THEN <<>> ELSE ConcatBatches(posts, k - 1) \o posts[k].arg

\* ceil(n / d), from its definition.
CeilDiv(n, d) ==
    CHOOSE c \in 0..n : c * d >= n /\ (c = 0 \/ (c - 1) * d < n)

IsPrefix(a, b) == Len(a) <= Len(b) /\ a = SubSeq(b, 1, Len(a))

\* C9: an upload of n records issues ceil(n/10) batch writes (none for
\* n = 0), every one but the last of exactly 10 records and the last of 1
\* to 10, whose concatenation is the record sequence, row by row; and every
\* batch write is followed by a pacing sleep before anything else is sent.
C9_BatchesOfTen ==
    /\ \A i \in 1..Len(wire) :
         wire[i].op = "POST" => i < Len(wire) /\ wire[i + 1] = Sleep
    /\ upc = "returned" =>
         LET n == Len(data.rows)
             posts == Posts
         IN
         /\ Len(posts) = CeilDiv(n, 10)
         /\ \A k \in 1..(Len(posts) - 1) : Len(posts[k].arg) = 10
         /\ Len(posts) > 0 => Len(posts[Len(posts)].arg) \in 1..10
         /\ ConcatBatches(posts, Len(posts)) = records
         /\ Len(records) = n
         /\ \A i \in 1..n : records[i]["plot_id"] = data.rows[i]["plot_id"]

\* 23 records went out as batches of 10, 10 and 3.
C9_Witness ==
    /\ upc = "returned"
    /\ Len(data.rows) = 23
    /\ Len(Posts) = 3
    /\ <<Len(Posts[1].arg), Len(Posts[2].arg), Len(Posts[3].arg)>>
          = <<10, 10, 3>>

\* C10: whichever batch writes the remote refuses, the upload never ends
\* in an error, what has been posted is always a prefix of the records (no
\* batch is skipped, repeated or reordered), and when the upload returns
\* every record has been posted.
C10_RefusedBatchDoesNotStop ==
    /\ upc # "raised"
    /\ IsPrefix(ConcatBatches(Posts, Len(Posts)), records)
    /\ upc = "returned" => ConcatBatches(Posts, Len(Posts)) = records

\* An upload returned after its first two batches were refused and its
\* third accepted.
C10_Witness ==
    /\ upc = "returned"
    /\ Len(Posts) = 3
    /\ Posts[1].status # 200
    /\ Posts[2].status # 200
    /\ Posts[3].status = 200

\* The delete requests issued so far, in order.
Deletes == SelectSeq(wire, LAMBDA e : e.op = "DELETE")

\* No delete request follows a batch write.
DeletesPrecedePosts ==
    \A i, j \in 1..Len(wire) :
        (i < j /\ wire[i].op = "POST") => wire[j].op # "DELETE"

\* The destination table holds none of the records it held when the call
\* started (those have the negative ids).
DestCleared == \A k \in 1..Len(dest) : dest[k] > 0

\* Every request of the delete phase issued so far was answered 200.
DeletePhaseSucceeded ==
    \A i \in 1..Len(wire) :
        wire[i].op \in {"GET", "DELETE"} => wire[i].status = 200

C17_NoMissingValueSent ==
    \A p \in 1..Len(Posts) : \A k \in 1..Len(Posts[p].arg) :
        \A col \in DOMAIN Posts[p].arg[k] :
            Posts[p].arg[k][col][1] \notin
                {"nan", "nat", "none", "str_nan", "str_nat", "str_none"}

\* The caller's data without its geometry column.
WithoutGeometry(df) ==
    [dtypes |-> [c \in DOMAIN df.dtypes \ {"geometry"} |-> df.dtypes[c]],
     rows   |-> [i \in 1..Len(df.rows) |->
                    [c \in DOMAIN df.dtypes \ {"geometry"} |-> df.rows[i][c]]]]

\* C18: with insert_geo false the upload does not fail, its records are
\* those of the same data without a geometry column, its batch writes
\* carry those records in order, and none carries a geometry field.
C18_GeometryIgnoredWithoutInsertGeo ==
    (~insert_geo /\ upc \notin {"nocall", "idle"}) =>
        /\ upc # "raised"
        /\ records = ToRecords(WithoutGeometry(data), FALSE)
        /\ IsPrefix(ConcatBatches(Posts, Len(Posts)),
                    ToRecords(WithoutGeometry(data), FALSE))
        /\ \A p \in 1..Len(Posts) : \A k \in 1..Len(Posts[p].arg) :
              "geometry" \notin DOMAIN Posts[p].arg[k]

\* An upload of data with a geometry column, insert_geo false, returned
\* after writing.
C18_Witness ==
    /\ ~insert_geo
    /\ "geometry" \in DOMAIN data.dtypes
    /\ upc = "returned"
    /\ Len(Posts) >= 2

\* C19: a log_entry(event, info) call is an upload to Logs of one record
\* {Event, Info} with insert_geo and delete_all false; it sends no listing
\* and no delete, at most one batch write, and when it returns exactly one
\* batch write of that one record; it never ends in an error.
C19_LogEntryIsOneWrite ==
    log_args # None =>
        /\ table_name = "Logs" /\ ~insert_geo /\ ~delete_all
        /\ DOMAIN data.dtypes = {"Event", "Info"}
        /\ Len(data.rows) = 1
        /\ \A i \in 1..Len(wire) : wire[i].op \in {"POST", "sleep"}
        /\ Len(Posts) <= 1
        /\ upc # "raised"
        /\ upc = "returned" =>
             /\ Len(Posts) = 1
             /\ Posts[1].arg =
                  <<[c \in {"Event", "Info"} |->
                       IF c = "Event" THEN <<"str", log_args[1][1]>>
                       ELSE <<"str", log_args[1][2]>>]>>

\* A log_entry call returned although its one write was refused.
C19_Witness ==
    /\ log_args # None
    /\ upc = "returned"
    /\ Len(Posts) = 1
    /\ Posts[1].status # 200

\* C20: the delete phase never ends in an error; the deletes issued are
\* the collected ids, one request each, in collection order, whatever the
\* answers; once the phase is over every collected id has had its request,
\* and when the upload returns every record has been posted.
C20_RefusedDeleteDoesNotStop ==
    /\ upc # "raised"
    /\ Len(Deletes) <= Len(all_record_ids)
    /\ \A k \in 1..Len(Deletes) : Deletes[k].arg = Some(all_record_ids[k])
    /\ (delete_all /\ upc \in {"post", "returned"})
          => Len(Deletes) = Len(all_record_ids)
    /\ upc = "returned" => ConcatBatches(Posts, Len(Posts)) = records

\* The first delete was refused, the second accepted, and batches followed.
C20_Witness ==
    /\ upc = "returned"
    /\ Len(Deletes) >= 2
    /\ Deletes[1].status # 200
    /\ Deletes[2].status = 200
    /\ Len(Posts) >= 1

\* The positions of clog that hold an event `ev` of invocation `d`.
EventsAt(ev, d) ==
    {i \in 1..Len(clog) : clog[i].ev = ev /\ clog[i].depth = d}

\* The number of requests of kind `ev` all invocations made for table t.
RequestsOn(ev, t) ==
    Cardinality({i \in 1..Len(clog) : clog[i].ev = ev /\ clog[i].table = t})

\* The table_names of invocation d.
TablesOf(d) == clog[CHOOSE i \in EventsAt("call", d) : TRUE].tables

\* Every table the outermost invocation verified was empty then.
EmptyAtFirstVerification ==
    \A i \in EventsAt("verify", 1) : clog[i].held = 0

\* Nothing but calls, trigger POSTs, verification GETs and sleeps
\* happened, and no invocation beyond the first.
NoRetryNoWrite ==
    /\ \A i \in 1..Len(clog) :
          /\ clog[i].ev \in {"call", "trigger", "verify", "sleep"}
          /\ clog[i].depth = 1
    /\ wire = <<>>

\* C12 as stated: a clear_tables call that found every table empty at its
\* first verification has made exactly two trigger calls and one
\* verification fetch per requested table, no retry and no write or
\* delete.
C12_TwoTriggersPerTable ==
    (cpc = "returned" /\ EmptyAtFirstVerification) =>
        /\ \A k \in 1..Len(requested) :
              /\ RequestsOn("trigger", requested[k]) = 2
              /\ RequestsOn("verify", requested[k]) = 1
        /\ NoRetryNoWrite

\* C12 as amended: two trigger calls per requested table that has a
\* trigger URL configured and none for a table without one; one
\* verification fetch per requested table, no retry and no write or
\* delete.
C12_TwoTriggersPerConfiguredTable ==
    (cpc = "returned" /\ EmptyAtFirstVerification) =>
        /\ \A k \in 1..Len(requested) :
              /\ RequestsOn("trigger", requested[k]) =
                    (IF urlOf[requested[k]] \in {None, Some("")} THEN 0
                     ELSE 2)
              /\ RequestsOn("verify", requested[k]) = 1
        /\ NoRetryNoWrite

\* Two tables were cleared, one with a trigger URL and one without, and
\* both were empty at the first verification.
C12_Witness ==
    /\ cpc = "returned"
    /\ EmptyAtFirstVerification
    /\ Len(requested) = 2
    /\ urlOf[requested[1]] = Some("https://hook")
    /\ urlOf[requested[2]] = None
    /\ RequestsOn("trigger", requested[1]) = 2
    /\ RequestsOn("verify", requested[2]) = 1

\* The tables of invocation d whose verification fetch returned at least
\* one record, in request order.
FoundNonEmpty(d) ==
    SelectSeq(TablesOf(d), LAMBDA t :
        \E i \in EventsAt("verify", d) : clog[i].table = t /\ clog[i].n > 0)

\* C13: the tables of a retry are exactly the tables of the invocation
\* that made it whose verification fetch returned a record, in request
\* order; that list is not empty; the retry is made after the last
\* verification; and an invocation that went on to its final wait with
\* such tables had made the retry.
C13_RetryOnNonEmptyTables ==
    \A d \in 1..Len(clog) :
        /\ EventsAt("call", d + 1) # {} =>
              /\ TablesOf(d + 1) = FoundNonEmpty(d)
              /\ TablesOf(d + 1) # <<>>
              /\ Range(TablesOf(d + 1)) \subseteq Range(TablesOf(d))
              /\ Cardinality(EventsAt("verify", d)) = Len(TablesOf(d))
              /\ Cardinality(EventsAt("call", d + 1)) = 1
        /\ (\E i \in EventsAt("sleep", d) : clog[i].n = FinalSeconds) =>
              (FoundNonEmpty(d) # <<>> <=> EventsAt("call", d + 1) # {})

\* A call on two tables retried one of them, found it empty and returned.
C13_Witness ==
    /\ cpc = "returned"
    /\ Len(requested) = 2
    /\ EventsAt("call", 2) # {}
    /\ Len(TablesOf(2)) = 1
    /\ EventsAt("call", 3) = {}

\* C14: while a requested table still holds records (its deletion hook
\* has not emptied it), clear_tables has not returned.
C14_NoReturnWhileNonEmpty ==
    cpc = "returned" => \A k \in 1..Len(requested) : remote[requested[k]] = 0

\* C15 as stated: every operation called on a template backend ended in
\* the not-implemented error.
C15_EveryTemplateOperationRaises ==
    \A k \in 1..Len(tcalls) : tcalls[k].outcome = "NotImplementedError"

\* The log_entry calls made so far, as <<event, info>> lines.
LogEntryCalls == SelectSeq(tcalls, LAMBDA c : c.op = "log_entry")

\* C15 as amended: every operation other than log_entry ended in the
\* not-implemented error; every log_entry returned normally, and each
\* printed one line.
C15_AllButLogEntryRaise ==
    /\ \A k \in 1..Len(tcalls) :
          tcalls[k].outcome =
             (IF tcalls[k].op = "log_entry" THEN "returned"
              ELSE "NotImplementedError")
    /\ Len(tstdout) = Len(LogEntryCalls)

\* A template's log_entry returned and its clear_tables raised.
C15_Witness ==
    /\ Len(tcalls) = 2
    /\ tcalls[1].backend = "RestAPIAdapter"
    /\ tcalls[1].op = "log_entry"
    /\ tcalls[1].outcome = "returned"
    /\ tcalls[2].op = "clear_tables"
    /\ tcalls[2].outcome = "NotImplementedError"

\* C16: a step that changes a cache is a resolver call; when the call
\* was given no cache it is a fetch_linked_record_name call and the cache
\* is the default cache, otherwise the cache is the one it was given.
C16_CachesChangedByResolverOnly ==
    [][\A c \in CacheNames :
          caches'[c] # caches[c] =>
             /\ Len(calls') = Len(calls) + 1
             /\ LET call == calls'[Len(calls')]
                IN IF call.arg = None
                   THEN c = DefaultCache /\ call.fn = "fetch_linked_record_name"
                   ELSE c = call.arg[1]]_vars

\* Resolver calls with and without a cache of the caller each stored a
\* record, in different caches.
C16_Witness ==
    /\ \E i, j \in 1..Len(calls) :
          /\ calls[i].arg = None /\ calls[i].status = Some(200)
          /\ calls[j].arg # None /\ calls[j].status = Some(200)
          /\ calls[i].record_id # calls[j].record_id
    /\ caches[DefaultCache] # caches["pod_cache"]
    /\ caches[DefaultCache] # <<>>
    /\ caches["pod_cache"] # <<>>

\* The headers of every request sent so far to the table endpoints: page
\* fetches, single-record fetches, the requests of an upload and the
\* verification fetches of clear_tables.
TableRequestHeaders ==
    {fetchLog[i].headers : i \in 1..Len(fetchLog)}
    \cup {calls[i].headers : i \in {j \in 1..Len(calls) : calls[j].requested}}
    \cup {wire[i].headers : i \in {j \in 1..Len(wire) : wire[j].op # "sleep"}}
    \cup {clog[i].headers : i \in {j \in 1..Len(clog) : clog[j].ev = "verify"}}

\* The headers of every trigger POST sent so far.
TriggerRequestHeaders ==
    {clog[i].headers : i \in {j \in 1..Len(clog) : clog[j].ev = "trigger"}}

HasBearer(h) ==
    /\ "Authorization" \in DOMAIN h
    /\ h["Authorization"][1] = "Bearer"

HasJsonContentType(h) ==
    /\ "Content-Type" \in DOMAIN h
    /\ h["Content-Type"] = <<"application/json">>

\* C21 as stated: every request sent, trigger POSTs included, carries an
\* Authorization: Bearer header and Content-Type: application/json.
C21_EveryRequestAuthorized ==
    \A h \in TableRequestHeaders \cup TriggerRequestHeaders :
        HasBearer(h) /\ HasJsonContentType(h)

\* C21 as amended: every request to a table endpoint carries both
\* headers; a trigger POST carries Content-Type: application/json and no
\* Authorization header.
C21_TableRequestsAuthorized ==
    /\ \A h \in TableRequestHeaders : HasBearer(h) /\ HasJsonContentType(h)
    /\ \A h \in TriggerRequestHeaders :
          HasJsonContentType(h) /\ "Authorization" \notin DOMAIN h

\* A clear_tables call has sent a trigger POST and a verification GET.
C21_Witness ==
    /\ TriggerRequestHeaders # {}
    /\ \E i \in 1..Len(clog) : clog[i].ev = "verify" /\ clog[i].status = 200
    /\ cpc = "returned"

\* What invocation d did, in order: its trigger POSTs <<"trigger", table,
\* round>>, its verification GETs <<"verify", table, 0>> and its sleeps
\* <<"sleep", "", seconds>>.
InvocationEvents(d) ==
    LET sel == SelectSeq(clog, LAMBDA e : e.depth = d /\ e.ev # "call")
    IN [k \in 1..Len(sel) |->
          <<sel[k].ev, sel[k].table,
            IF sel[k].ev = "verify" THEN 0 ELSE sel[k].n>>]

\* The events of a complete invocation on the tables tn, of which the
\* tables `triggered` get their trigger POSTs.
ExpectedEvents(tn, triggered) ==
    [k \in 1..Len(triggered) |-> <<"trigger", triggered[k], 1>>]
    \o [k \in 1..Len(triggered) |-> <<"trigger", triggered[k], 2>>]
    \o << <<"sleep", "", 5>> >>
    \o [k \in 1..Len(tn) |-> <<"verify", tn[k], 0>>]
    \o << <<"sleep", "", 10>> >>

\* The tables of tn that have a trigger URL.
WithUrl(tn) == SelectSeq(tn, LAMBDA t : urlOf[t] \notin {None, Some("")})

\* The recursive invocation of invocation d, if any, is the only one, is
\* made after d's last verification and has returned before d's final
\* wait.
RetryPlaced(d) ==
    /\ Cardinality(EventsAt("call", d + 1)) <= 1
    /\ \A c \in EventsAt("call", d + 1) :
          /\ Cardinality(EventsAt("verify", d)) = Len(TablesOf(d))
          /\ \A v \in EventsAt("verify", d) : v < c
    /\ \A w \in EventsAt("sleep", d) :
          clog[w].n = 10 =>
             \A i \in 1..Len(clog) : clog[i].depth = d + 1 => i < w

\* C22 as stated: what an invocation has done so far is the beginning of:
\* a trigger for every requested table, a second trigger for every
\* requested table, the settle wait, a verification fetch per requested
\* table in request order, the final wait; its retry comes after the
\* verifications and before the final wait; and every invocation of a
\* call that has returned has done all of it.
C22_InvocationOrder ==
    \A d \in 1..Len(clog) :
        EventsAt("call", d) # {} =>
            /\ IsPrefix(InvocationEvents(d),
                        ExpectedEvents(TablesOf(d), TablesOf(d)))
            /\ RetryPlaced(d)
            /\ cpc = "returned" =>
                  InvocationEvents(d) = ExpectedEvents(TablesOf(d), TablesOf(d))

\* C22 as amended: the same order, the triggers of both rounds being
\* those of the requested tables that have a trigger URL.
C22_InvocationOrderOfConfiguredTables ==
    \A d \in 1..Len(clog) :
        EventsAt("call", d) # {} =>
            /\ IsPrefix(InvocationEvents(d),
                        ExpectedEvents(TablesOf(d), WithUrl(TablesOf(d))))
            /\ RetryPlaced(d)
            /\ cpc = "returned" =>
                  InvocationEvents(d) =
                     ExpectedEvents(TablesOf(d), WithUrl(TablesOf(d)))

\* A call on two tables, both with a trigger URL, retried once and
\* returned: two complete invocations.
C22_Witness ==
    /\ cpc = "returned"
    /\ Len(requested) = 2
    /\ WithUrl(requested) = requested
    /\ EventsAt("call", 2) # {}
    /\ Len(InvocationEvents(1)) = 8
    /\ Len(InvocationEvents(2)) >= 5

\* Every requested table is empty on the remote.
AllRequestedEmpty == \A k \in 1..Len(requested) : remote[requested[k]] = 0

\* The recursion has reached the depth the model follows.
Capped ==
    /\ cpc = "running"
    /\ Len(stack) >= MaxDepth
    /\ Top.phase = "retry"

\* The clear_tables invocations made so far.
NumInvocations ==
    Cardinality({i \in 1..Len(clog) : clog[i].ev = "call"})

\* The verification rounds in which some table still held a record.
NonEmptyRounds ==
    Cardinality({d \in 1..Len(clog) :
        \E i \in EventsAt("verify", d) : clog[i].held > 0})

\* The verification rounds in which some answer listed a record.
AnsweredNonEmptyRounds ==
    Cardinality({d \in 1..Len(clog) :
        \E i \in EventsAt("verify", d) : clog[i].n > 0})

\* C23: when the requested tables are eventually empty for good (and the
\* recursion stays within the depth followed), clear_tables eventually
\* returns, having made one invocation plus one per verification round in
\* which some table was still non-empty.
C23_ReturnsAfterNonEmptyRounds ==
    (<>[]AllRequestedEmpty /\ []~Capped) =>
        <>(cpc = "returned" /\ NumInvocations = 1 + NonEmptyRounds)

\* The same with the rounds counted by what the verification answers
\* listed.
ReturnsAfterAnsweredNonEmptyRounds ==
    (<>[]AllRequestedEmpty /\ []~Capped) =>
        <>(cpc = "returned" /\ NumInvocations = 1 + AnsweredNonEmptyRounds)

\* Invocation d has made its final wait.
Returned(d) == \E w \in EventsAt("sleep", d) : clog[w].n = 10

\* Invocation d has retried table t.
Retried(d, t) ==
    /\ EventsAt("call", d + 1) # {}
    /\ t \in Range(TablesOf(d + 1))

\* C24: a table that held a record when an invocation verified it is in
\* that invocation's retry, whatever the answer to the verification was;
\* and when clear_tables has returned every requested table is empty.
C24_ReturnedMeansCleared ==
    /\ \A d \in 1..Len(clog) :
          Returned(d) =>
             \A i \in EventsAt("verify", d) :
                clog[i].held > 0 => Retried(d, clog[i].table)
    /\ cpc = "returned" => AllRequestedEmpty

\* t has no usable DELETE_TABLE_WEBHOOK entry.
NoUrl(t) == urlOf[t] \in {None, Some("")}

\* C25: a table without a trigger URL gets no trigger POST; an invocation
\* that has verified all its tables has verified it; and when it held a
\* record at its verification, the invocation's retry (once the
\* invocation has made one or gone on to its final wait) includes it.
C25_NoUrlTableStillRetried ==
    \A d \in 1..Len(clog) : EventsAt("call", d) # {} =>
        \A k \in 1..Len(TablesOf(d)) :
            LET t == TablesOf(d)[k]
            IN NoUrl(t) =>
                 /\ RequestsOn("trigger", t) = 0
                 /\ Cardinality(EventsAt("verify", d)) = Len(TablesOf(d))
                       => \E i \in EventsAt("verify", d) : clog[i].table = t
                 /\ \A i \in EventsAt("verify", d) :
                       (/\ clog[i].table = t
                        /\ clog[i].held > 0
                        /\ (Returned(d) \/ EventsAt("call", d + 1) # {}))
                       => Retried(d, t)

\* The record fetched by call i has no field of the name asked for.
LacksField(i) ==
    calls[i].field_name \notin DOMAIN RecordFields(calls[i].record_id)

\* C26: a cache holds an id exactly when a fetch of that id through it
\* succeeded; a call that follows only failed fetches of its id issues a
\* request; and once a fetch succeeded on a record without the field
\* asked for, the cache holds None for the id and every later call for it
\* returns None without a request.
C26_MemoizesSuccessesOnly ==
    /\ \A c \in CacheNames, record_id \in LinkIds :
          record_id \in DOMAIN caches[c] <=>
             \E i \in 1..Len(calls) :
                /\ calls[i].cache = c
                /\ calls[i].record_id = record_id
                /\ Succeeded(i)
    /\ \A j \in 1..Len(calls) :
          (\A i \in 1..(j - 1) : SameSlot(i, j) => Failed(i))
             => calls[j].requested
    /\ \A i, j \in 1..Len(calls) :
          (i < j /\ SameSlot(i, j) /\ Succeeded(i) /\ LacksField(i)) =>
             /\ caches[calls[i].cache][calls[i].record_id] = None
             /\ ~calls[j].requested
             /\ calls[j].ret = None

\* A failed fetch, then a successful fetch of the same id that found no
\* such field, then a call answered None from the cache.
C26_Witness ==
    \E i, j, k \in 1..Len(calls) :
        /\ i < j /\ j < k
        /\ SameSlot(i, j) /\ SameSlot(j, k)
        /\ Failed(i)
        /\ Succeeded(j) /\ LacksField(j)
        /\ ~calls[k].requested /\ calls[k].ret = None

\* The first listing request of the delete phase was answered 200.
FirstListingSucceeded ==
    /\ Len(wire) >= 1
    /\ wire[1].op = "GET" /\ wire[1].status = 200

FirstListingFailed ==
    /\ Len(wire) >= 1
    /\ wire[1].op = "GET" /\ wire[1].status # 200

\* C27: after a first listing that succeeded, the ids collected when the
\* deletes begin are those of all the records of the table, and once the
\* phase is over each has had exactly one delete request; after a first
\* listing that failed no delete is issued and every record is posted.
C27_CollectsAndDeletesEveryRecord ==
    /\ (delete_all /\ FirstListingSucceeded /\ upc = "delete"
           /\ Deletes = <<>>)
          => all_record_ids = dest
    /\ (delete_all /\ FirstListingSucceeded /\ upc \in {"post", "returned"})
          => /\ Len(Deletes) = Len(all_record_ids)
             /\ \A k \in 1..Len(Deletes) :
                   Deletes[k].arg = Some(all_record_ids[k])
             /\ \A k, l \in 1..Len(Deletes) :
                   Deletes[k].arg = Deletes[l].arg => k = l
    /\ (delete_all /\ FirstListingFailed) => Deletes = <<>>
    /\ (delete_all /\ FirstListingFailed /\ upc = "returned")
          => ConcatBatches(Posts, Len(Posts)) = records

\* The ids of the uploaded records, in order.
UploadedIds == [k \in 1..Len(records) |-> records[k]["plot_id"][2]]

\* The records the table held before the call that are still there.
PreviousRecords == SelectSeq(dest, LAMBDA id : id < 0)

\* Every batch write so far was answered 200.
AllPostsSucceeded == \A p \in 1..Len(Posts) : Posts[p].status = 200

\* C28: with delete_all false the upload sends nothing but batch writes
\* (no listing, no delete, no trigger), never removes a record from the
\* table, and when it has returned with every write accepted the table
\* holds its previous records followed by the uploaded ones.
C28_OnlyBatchWritesWithoutDeleteAll ==
    /\ [](~delete_all =>
            /\ \A i \in 1..Len(wire) : wire[i].op \in {"POST", "sleep"}
            /\ clog = <<>>
            /\ (upc = "returned" /\ AllPostsSucceeded)
                  => dest = PreviousRecords \o UploadedIds)
    /\ [][~delete_all => IsPrefix(dest, dest')]_vars

\* An upload without delete_all to a table that held records returned
\* with all of its batches accepted.
C28_Witness ==
    /\ ~delete_all
    /\ upc = "returned"
    /\ Len(Posts) >= 2
    /\ AllPostsSucceeded
    /\ Len(PreviousRecords) >= 2
    /\ Len(dest) = Len(PreviousRecords) + Len(records)

\* C29: no step of upload_results changes the frame the caller passed in:
\* it keeps its columns, geometry included, its dtypes and its values,
\* whatever insert_geo and delete_all are and whether or not batches fail.
C29_CallerDataUntouched == [][data' = data]_vars

\* An upload with delete_all that dropped the geometry column from its
\* records and had a batch refused has returned, and the caller's frame
\* still has the column.
C29_Witness ==
    /\ upc = "returned"
    /\ delete_all
    /\ ~insert_geo
    /\ "geometry" \in Columns(data)
    /\ Len(records) >= 1
    /\ "geometry" \notin DOMAIN records[1]
    /\ \E p \in 1..Len(Posts) : Posts[p].status # 200

(* ================= properties: side effects of the templates =========== *)
\* The step is a template operation that ended in the not-implemented
\* error.
EndsNotImplemented ==
    /\ Len(tcalls') = Len(tcalls) + 1
    /\ tcalls'[Len(tcalls')].outcome = Raises

\* C30: an operation of a template backend that ends in the
\* not-implemented error has sent no network request and has left every
\* local directory as it was.
C30_NotImplementedLeavesStateUnchanged ==
    [][EndsNotImplemented => (trequests' = trequests /\ tdirs' = tdirs)]_vars

====
